---- MODULE Spec2Model ----
(***************************************************************************)
(* MiniSearchEngine: in-memory inverted index with TF-IDF ranking.         *)
(* A std::string is a sequence of one-character strings; an unordered_map  *)
(* is a function whose DOMAIN is its key set; an unordered_set is a set.   *)
(***************************************************************************)
EXTENDS Integers, Sequences, FiniteSets, TLC

VARIABLES documents, invertedIndex, termFrequency, documentFrequency,
          lastCall, ranked, results,
          snDoc, snTerms, snOut

vars == <<documents, invertedIndex, termFrequency, documentFrequency,
          lastCall, ranked, results, snDoc, snTerms, snOut>>

---------------------------------------------------------------------------
(* Bounds of the model *)

MaxDocs == 2

---------------------------------------------------------------------------
(* Program constants *)

MinWordLength == 2

SnippetWindow == 150

SnippetLead == 75

---------------------------------------------------------------------------
(* Characters (the "C" locale of isalnum / isspace / tolower) *)

LowerLetters == <<"a", "b", "c", "d", "e", "f", "g", "h", "i", "j", "k", "l", "m",
                  "n", "o", "p", "q", "r", "s", "t", "u", "v", "w", "x", "y", "z">>

UpperLetters == <<"A", "B", "C", "D", "E", "F", "G", "H", "I", "J", "K", "L", "M",
                  "N", "O", "P", "Q", "R", "S", "T", "U", "V", "W", "X", "Y", "Z">>

DigitChars == {"0", "1", "2", "3", "4", "5", "6", "7", "8", "9"}

SpaceChars == {" ", "\t", "\n", "\r"}

Range(s) == {s[i] : i \in DOMAIN s}

Min(a, b) == IF a < b THEN a ELSE b

AlnumChars == Range(LowerLetters) \cup Range(UpperLetters) \cup DigitChars

IsAlnum_Underscore(c) == c \in AlnumChars \cup {"_"}

IsAlnum(c) == c \in AlnumChars

IsSpace(c) == c \in SpaceChars

LowerOf == [c \in Range(UpperLetters) |->
               LowerLetters[CHOOSE i \in DOMAIN UpperLetters : UpperLetters[i] = c]]

ToLower(c) == IF c \in DOMAIN LowerOf THEN LowerOf[c] ELSE c

---------------------------------------------------------------------------
(* Text pipeline *)

(* the body of the loop of preprocessText, for one character *)
PreprocessChar(c) == IF IsAlnum(c) \/ IsSpace(c) THEN ToLower(c) ELSE " "

PreprocessText(text) == [i \in 1..Len(text) |-> PreprocessChar(text[i])]

(* iss >> word: the maximal runs of non-whitespace characters, in order *)
RECURSIVE ExtractWords(_, _)
ExtractWords(s, word) ==
    IF s = <<>>
    THEN IF word = <<>> THEN <<>> ELSE <<word>>
    ELSE IF IsSpace(Head(s))
         THEN IF word = <<>>
              THEN ExtractWords(Tail(s), <<>>)
              ELSE <<word>> \o ExtractWords(Tail(s), <<>>)
         ELSE ExtractWords(Tail(s), Append(word, Head(s)))

KeepWord(word) == Len(word) > MinWordLength

Tokenize(text) == SelectSeq(ExtractWords(PreprocessText(text), <<>>), KeepWord)

---------------------------------------------------------------------------
(* std::string::find and substr; positions are 0-based as in the source *)

npos == 0 - 1

MatchesAt(text, pat, pos) ==
    /\ pos + Len(pat) <= Len(text)
    /\ \A k \in 1..Len(pat) : text[pos + k] = pat[k]

(* text.find(pat, pos): the lowest position >= pos at which pat occurs *)
FindFrom(text, pat, pos) ==
    LET hits == {p \in pos..(Len(text) - Len(pat)) : MatchesAt(text, pat, p)}
    IN IF hits = {} THEN npos ELSE CHOOSE p \in hits : \A q \in hits : p <= q

Find(text, pat) == FindFrom(text, pat, 0)

Substr(text, start, length) == SubSeq(text, start + 1, start + length)

---------------------------------------------------------------------------
(* unordered_map access *)

EmptyMap == <<>>

(* m[k] = v, inserting the key when it is absent *)
MapPut(m, k, v) == (k :> v) @@ m

(* operator[] on a map of counters: an absent key is value-initialised to 0 *)
CounterAt(m, k) == IF k \in DOMAIN m THEN m[k] ELSE 0

(* operator[] on a map of containers: an absent key yields an empty one *)
SetAt(m, k) == IF k \in DOMAIN m THEN m[k] ELSE {}

InnerMapAt(m, k) == IF k \in DOMAIN m THEN m[k] ELSE EmptyMap

---------------------------------------------------------------------------
(* Ingestion *)

Engine == [documents |-> documents, invertedIndex |-> invertedIndex,
           termFrequency |-> termFrequency, documentFrequency |-> documentFrequency]

NextDocId_OffByOne(docs) == Len(docs) + 1

NextDocId(docs) == Len(docs)

Document(id, title, content, url) ==
    [id |-> id, title |-> title, content |-> content, url |-> url]

CombinedTokens_SingleTitle(titleTokens, contentTokens) == titleTokens \o contentTokens

CombinedTokens(titleTokens, contentTokens) ==
    titleTokens \o titleTokens \o contentTokens

(* invertedIndex[token].insert(docId) for each token *)
RECURSIVE IndexTokens(_, _, _)
IndexTokens(ii, tokens, docId) ==
    IF tokens = <<>> THEN ii
    ELSE IndexTokens(MapPut(ii, Head(tokens), SetAt(ii, Head(tokens)) \cup {docId}),
                     Tail(tokens), docId)

(* termFrequency[docId][token]++ for each token *)
RECURSIVE CountTokens(_, _, _)
CountTokens(tf, tokens, docId) ==
    IF tokens = <<>> THEN tf
    ELSE CountTokens(
            MapPut(tf, docId,
                   MapPut(InnerMapAt(tf, docId), Head(tokens),
                          CounterAt(InnerMapAt(tf, docId), Head(tokens)) + 1)),
            Tail(tokens), docId)

RECURSIVE IncrementEach(_, _)
IncrementEach(df, tokens) ==
    IF tokens = <<>> THEN df
    ELSE IncrementEach(MapPut(df, Head(tokens), CounterAt(df, Head(tokens)) + 1),
                       Tail(tokens))

UpdateDocumentFrequency_PerToken(df, allTokens) == IncrementEach(df, allTokens)

(* uniqueTerms collects the tokens; documentFrequency[term]++ once per member *)
UpdateDocumentFrequency(df, allTokens) ==
    LET uniqueTerms == Range(allTokens)
    IN [t \in DOMAIN df \cup uniqueTerms |->
            IF t \in uniqueTerms THEN CounterAt(df, t) + 1 ELSE df[t]]

AddDocumentTo(e, title, content, url) ==
    LET docId == NextDocId(e.documents)
        allTokens == CombinedTokens(Tokenize(title), Tokenize(content))
    IN [documents |-> Append(e.documents, Document(docId, title, content, url)),
        invertedIndex |-> IndexTokens(e.invertedIndex, allTokens, docId),
        termFrequency |-> CountTokens(e.termFrequency, allTokens, docId),
        documentFrequency |-> UpdateDocumentFrequency(e.documentFrequency, allTokens)]

SetEngine(e) ==
    /\ documents' = e.documents
    /\ invertedIndex' = e.invertedIndex
    /\ termFrequency' = e.termFrequency
    /\ documentFrequency' = e.documentFrequency

---------------------------------------------------------------------------
(* Scoring.  A double score is held in fixed point, in millionths: log is  *)
(* the sum of the logarithms of the prime factors, so that log(n/d) is     *)
(* exactly 0 when n = d and positive when d < n, as std::log gives.        *)

LogPrime == [p \in {2, 3, 5, 7} |->
                CASE p = 2 -> 693147 [] p = 3 -> 1098612
                  [] p = 5 -> 1609438 [] p = 7 -> 1945910]

RECURSIVE Valuation(_, _)
Valuation(n, p) == IF n > 0 /\ n % p = 0 THEN 1 + Valuation(n \div p, p) ELSE 0

LogFixed(n) ==
    Valuation(n, 2) * LogPrime[2] + Valuation(n, 3) * LogPrime[3]
        + Valuation(n, 5) * LogPrime[5] + Valuation(n, 7) * LogPrime[7]

(* log(documents.size() / documentFrequency[term]); the divisor is at least *)
(* 1 wherever calculateTFIDF gets this far, and the corpus at most 10       *)
Idf_Smoothed(n, df) == LogFixed(n + 1) - LogFixed(df)

Idf(n, df) == LogFixed(n) - LogFixed(df)

TfIdf_Sum(tf, idf) == tf + idf

TfIdf(tf, idf) == tf * idf

(* calculateTFIDF: s carries the two maps its operator[] calls may touch *)
CalculateTFIDF(s, term, docId, n) ==
    LET tf1 == IF docId \in DOMAIN s.tf THEN s.tf ELSE MapPut(s.tf, docId, EmptyMap)
    IN IF term \notin DOMAIN tf1[docId]
       THEN [value |-> 0, tf |-> tf1, df |-> s.df]
       ELSE LET df1 == IF term \in DOMAIN s.df THEN s.df ELSE MapPut(s.df, term, 0)
            IN [value |-> TfIdf(tf1[docId][term], Idf(n, df1[term])),
                tf |-> tf1, df |-> df1]

(* for (int docId : indexIter->second) scores[docId] += calculateTFIDF(term, docId) *)
RECURSIVE ScorePosting(_, _, _, _)
ScorePosting(s, term, posting, n) ==
    IF posting = {} THEN s
    ELSE LET docId == CHOOSE d \in posting : TRUE
             r == CalculateTFIDF(s, term, docId, n)
         IN ScorePosting([scores |-> MapPut(s.scores, docId,
                                            CounterAt(s.scores, docId) + r.value),
                          tf |-> r.tf, df |-> r.df],
                         term, posting \ {docId}, n)

IndexAfterFind_Subscript(ii, term) ==
    IF term \in DOMAIN ii THEN ii ELSE MapPut(ii, term, {})

(* invertedIndex.find(term): a lookup that inserts no key, found or not *)
IndexAfterFind(ii, term) == ii

(* the index after the lookups of all the query terms *)
RECURSIVE IndexAfterFinds(_, _)
IndexAfterFinds(ii, queryTerms) ==
    IF queryTerms = <<>> THEN ii
    ELSE IndexAfterFinds(IndexAfterFind(ii, Head(queryTerms)), Tail(queryTerms))

(* the loop over queryTerms; a term that is no key of the index is skipped *)
RECURSIVE AccumulateScores(_, _, _, _)
AccumulateScores(s, queryTerms, ii, n) ==
    IF queryTerms = <<>> THEN s
    ELSE AccumulateScores(
            IF Head(queryTerms) \in DOMAIN ii
            THEN ScorePosting(s, Head(queryTerms), ii[Head(queryTerms)], n)
            ELSE s,
            Tail(queryTerms), ii, n)

---------------------------------------------------------------------------
(* Snippets *)

Ellipsis == <<".", ".", ".">>

RECURSIVE BestPos(_, _)
BestPos(lowerText, queryTerms) ==
    IF queryTerms = <<>> THEN 0
    ELSE LET pos == Find(lowerText, Head(queryTerms))
         IN IF pos # npos THEN pos ELSE BestPos(lowerText, Tail(queryTerms))

SnippetStart_AtMatch(bestPos) == bestPos

SnippetStart(bestPos) == IF bestPos > SnippetLead THEN bestPos - SnippetLead ELSE 0

SnippetLength(textLength, start) == Min(SnippetWindow, textLength - start)

(* the locals of generateSnippet and the string it returns *)
SnippetParts(doc, queryTerms) ==
    LET text == doc.content
        lowerText == PreprocessText(text)
        start == SnippetStart(BestPos(lowerText, queryTerms))
        length == SnippetLength(Len(text), start)
        extracted == Substr(text, start, length)
    IN [start |-> start, length |-> length, extracted |-> extracted,
        snippet |-> (IF start > 0 THEN Ellipsis ELSE <<>>) \o extracted
                    \o (IF start + length < Len(text) THEN Ellipsis ELSE <<>>)]

GenerateSnippet(doc, queryTerms) == SnippetParts(doc, queryTerms).snippet

---------------------------------------------------------------------------
(* Query and ranking *)

SearchResult(id, s, t, snip, u) ==
    [documentId |-> id, score |-> s, title |-> t, snippet |-> snip, url |-> u]

MakeResult(docs, scores, docId, queryTerms) ==
    LET doc == docs[docId + 1]
    IN SearchResult(docId, scores[docId], doc.title,
                    GenerateSnippet(doc, queryTerms), doc.url)

ScoreBefore_Ascending(a, b) == a.score < b.score

(* the comparator handed to std::sort *)
ScoreBefore(a, b) == a.score > b.score

IsSortedBy(seq) ==
    \A i, j \in 1..Len(seq) : i < j => ~ScoreBefore(seq[j], seq[i])

Orderings(S) ==
    {p \in [1..Cardinality(S) -> S] : \A i, j \in 1..Cardinality(S) : p[i] = p[j] => i = j}

(* The scan of the unordered scores map visits its keys in an unspecified  *)
(* order; one order stands for all, since the sort that follows may leave  *)
(* any rearrangement of the vector that the comparator accepts.            *)
RECURSIVE ScanOrder(_)
ScanOrder(keys) ==
    IF keys = {} THEN <<>>
    ELSE LET k == CHOOSE x \in keys : TRUE IN <<k>> \o ScanOrder(keys \ {k})

(* the loop over the scores map: one SearchResult per key, in scan order *)
RECURSIVE MakeResults(_, _, _, _, _)
MakeResults(docs, scores, scan, queryTerms, res) ==
    IF scan = <<>> THEN res
    ELSE MakeResults(docs, scores, Tail(scan), queryTerms,
                     Append(res, MakeResult(docs, scores, Head(scan), queryTerms)))

RECURSIVE Rearranged(_, _, _)
Rearranged(res, p, i) ==
    IF i > Len(res) THEN <<>> ELSE <<res[p[i]]>> \o Rearranged(res, p, i + 1)

(* Every vector std::sort may leave of res: a rearrangement the comparator *)
(* accepts; the order of results with equal scores is unspecified.         *)
SortedArrangements(res) ==
    {r \in {Rearranged(res, p, 1) : p \in Orderings(1..Len(res))} : IsSortedBy(r)}

(* results.size() > static_cast<size_t>(maxResults): a negative int becomes *)
(* 2^64 + maxResults, which no vector size exceeds                          *)
ExceedsSizeT(size, maxResults) == IF maxResults < 0 THEN FALSE ELSE size > maxResults

ResizeResults(res, maxResults) ==
    IF ExceedsSizeT(Len(res), maxResults) THEN SubSeq(res, 1, maxResults) ELSE res

---------------------------------------------------------------------------
(* Batch loading *)

LoadLine_NoSkip(e, line) ==
    LET pos1 == Find(line, <<"|">>)
    IN IF pos1 = npos THEN AddDocumentTo(e, line, <<>>, <<>>)
       ELSE AddDocumentTo(e, Substr(line, 0, pos1),
                          Substr(line, pos1 + 1, Len(line) - pos1 - 1), <<>>)

(* the body of the getline loop *)
LoadLine(e, line) ==
    LET pos1 == Find(line, <<"|">>)
    IN IF pos1 = npos THEN e
       ELSE LET pos2 == FindFrom(line, <<"|">>, pos1 + 1)
                title == Substr(line, 0, pos1)
                content == IF pos2 # npos
                           THEN Substr(line, pos1 + 1, pos2 - pos1 - 1)
                           ELSE Substr(line, pos1 + 1, Len(line) - pos1 - 1)
                url == IF pos2 # npos
                       THEN Substr(line, pos2 + 1, Len(line) - pos2 - 1)
                       ELSE <<>>
            IN AddDocumentTo(e, title, content, url)

RECURSIVE LoadLines(_, _)
LoadLines(e, lines) ==
    IF lines = <<>> THEN e ELSE LoadLines(LoadLine(e, Head(lines)), Tail(lines))

---------------------------------------------------------------------------
(* Inputs *)

S_python == <<"p", "y", "t", "h", "o", "n">>

S_python5 == S_python \o <<" ">> \o S_python \o <<" ">> \o S_python \o <<" ">>
                \o S_python \o <<" ">> \o S_python

S_CatDog == <<"C", "a", "t", " ", "d", "o", "g">>

S_CatTerm == <<"T", "h", "e", " ", "c", "a", "t", " ", "s", "a", "t", ":", " ",
               "a", " ", "t", "e", "r", "m", ".">>

S_url == <<"u">>

Q_zzz == <<"z", "z", "z", "_", "n", "o", "n", "e", "x", "i", "s", "t", "e", "n", "t",
           "_", "t", "e", "r", "m">>

Q_mixed == <<"T", "h", "e", " ", "c", "a", "t", ",", " ", "p", "y", "t", "h", "o", "n", "!">>

L_ABC == <<"A", "|", "B", "|", "C">>

L_DE == <<"D", "|", "E">>

L_NoDelimiter == <<"n", "o", "-", "d", "e", "l", "i", "m", "i", "t", "e", "r", "-",
                   "l", "i", "n", "e">>

T_zzz == <<"z", "z", "z">>

T_nonexistent == <<"n", "o", "n", "e", "x", "i", "s", "t", "e", "n", "t">>

T_term == <<"t", "e", "r", "m">>

DocInputs ==
    {[title |-> <<>>, content |-> <<>>, url |-> <<>>],
     [title |-> <<>>, content |-> S_python5, url |-> <<>>],
     [title |-> <<>>, content |-> S_python, url |-> <<>>],
     [title |-> S_CatDog, content |-> S_CatTerm, url |-> S_url]}

Queries == {S_python, Q_zzz, Q_mixed}

MaxResultsInputs == {0 - 1, 0, 1, 2}

(* the lines getline reads from a file; a file that cannot be opened reads none *)
Files == {<<>>, <<L_NoDelimiter>>, <<L_ABC, L_DE, L_NoDelimiter>>}

HasPipe(line) == \E i \in DOMAIN line : line[i] = "|"

---------------------------------------------------------------------------
(* The engine *)

NoCall == [op |-> "none"]

NoSnippet == [done |-> FALSE]

EmptyDoc == Document(0, <<>>, <<>>, <<>>)

Init ==
    /\ documents = <<>>
    /\ invertedIndex = EmptyMap
    /\ termFrequency = EmptyMap
    /\ documentFrequency = EmptyMap
    /\ lastCall = NoCall
    /\ ranked = <<>>
    /\ results = <<>>
    /\ snDoc = EmptyDoc
    /\ snTerms = <<>>
    /\ snOut = NoSnippet

AddDocument(title, content, url) ==
    /\ Len(documents) < MaxDocs
    /\ SetEngine(AddDocumentTo(Engine, title, content, url))
    /\ lastCall' = [op |-> "addDocument", title |-> title, content |-> content,
                    url |-> url]
    /\ UNCHANGED <<ranked, results, snDoc, snTerms, snOut>>

Search(query, maxResults) ==
    LET queryTerms == Tokenize(query)
        s == AccumulateScores([scores |-> EmptyMap, tf |-> termFrequency,
                               df |-> documentFrequency],
                              queryTerms, invertedIndex, Len(documents))
    IN /\ \E sorted \in SortedArrangements(
                            MakeResults(documents, s.scores, ScanOrder(DOMAIN s.scores),
                                        queryTerms, <<>>)) :
            /\ ranked' = sorted
            /\ results' = ResizeResults(sorted, maxResults)
       /\ invertedIndex' = IndexAfterFinds(invertedIndex, queryTerms)
       /\ termFrequency' = s.tf
       /\ documentFrequency' = s.df
       /\ lastCall' = [op |-> "search", query |-> query, maxResults |-> maxResults]
       /\ UNCHANGED <<documents, snDoc, snTerms, snOut>>

LoadFromFile(lines) ==
    /\ Len(documents) + Len(SelectSeq(lines, HasPipe)) <= MaxDocs
    /\ SetEngine(LoadLines(Engine, lines))
    /\ lastCall' = [op |-> "loadFromFile", lines |-> lines]
    /\ UNCHANGED <<ranked, results, snDoc, snTerms, snOut>>

Next ==
    \/ \E d \in DocInputs : AddDocument(d.title, d.content, d.url)
    \/ \E q \in Queries, m \in MaxResultsInputs : Search(q, m)
    \/ \E lines \in Files : LoadFromFile(lines)

Spec == Init /\ [][Next]_vars

---------------------------------------------------------------------------
(* generateSnippet alone, on contents long enough to fill its window *)

S_Python == <<"P", "y", "t", "h", "o", "n">>

Filler(n) == [i \in 1..n |-> "-"]

PrePads == {0, 1, 75, 76, 100, 144}

PostPads == {0, 10, 69, 75, 150}

SnippetContents ==
    {Filler(pre) \o S_Python \o Filler(post) : pre \in PrePads, post \in PostPads}
        \cup {Filler(n) : n \in {0, 149, 150, 151}}

SnippetTermSeqs == {<<>>, <<S_python>>, <<T_zzz, S_python>>, <<T_zzz>>}

InitSnippet ==
    /\ documents = <<>>
    /\ invertedIndex = EmptyMap
    /\ termFrequency = EmptyMap
    /\ documentFrequency = EmptyMap
    /\ lastCall = NoCall
    /\ ranked = <<>>
    /\ results = <<>>
    /\ snDoc \in {Document(0, <<>>, c, <<>>) : c \in SnippetContents}
    /\ snTerms \in SnippetTermSeqs
    /\ snOut = NoSnippet

RunGenerateSnippet ==
    /\ ~snOut.done
    /\ snOut' = [done |-> TRUE, parts |-> SnippetParts(snDoc, snTerms)]
    /\ UNCHANGED <<documents, invertedIndex, termFrequency, documentFrequency,
                   lastCall, ranked, results, snDoc, snTerms>>

NextSnippet == RunGenerateSnippet

SpecSnippet == InitSnippet /\ [][NextSnippet]_vars

---------------------------------------------------------------------------
(* Vocabulary of the properties *)

DocIds == 0..(Len(documents) - 1)

Occurrences(T, seq) == Cardinality({i \in DOMAIN seq : seq[i] = T})

DocTerms(doc) == Range(Tokenize(doc.title)) \cup Range(Tokenize(doc.content))

TermsOfTable(tf) == UNION {DOMAIN tf[d] : d \in DOMAIN tf}

ProbeTerms == {T_zzz, T_nonexistent, T_term, S_python}

KnownTerms ==
    DOMAIN invertedIndex \cup DOMAIN documentFrequency
        \cup TermsOfTable(termFrequency) \cup ProbeTerms

TermCountIn(tf, d, T) == CounterAt(InnerMapAt(tf, d), T)

IsSearch == lastCall.op = "search"

NonIncreasing(res) ==
    \A i \in 1..Len(res) : \A j \in 1..Len(res) : i < j => res[i].score >= res[j].score

ResultIds(res) == {res[i].documentId : i \in 1..Len(res)}

QueryTermsOf(query) == Range(Tokenize(query))

(* the documents holding at least one term of the query *)
MatchingDocs(query) ==
    {d \in DocIds : DocTerms(documents[d + 1]) \cap QueryTermsOf(query) # {}}

---------------------------------------------------------------------------
(* C1: after any sequence of calls, a document D is in InvertedIndex[T]    *)
(* exactly when TermFrequencyTable[D][T] > 0, and DocumentFrequencyTable[T] *)
(* is the number of documents in InvertedIndex[T], for every D and T.       *)
C1_IndexConsistency ==
    /\ \A T \in KnownTerms :
          /\ \A d \in DocIds \cup DOMAIN termFrequency \cup SetAt(invertedIndex, T) :
                (d \in SetAt(invertedIndex, T)) <=> (TermCountIn(termFrequency, d, T) > 0)
          /\ CounterAt(documentFrequency, T) = Cardinality(SetAt(invertedIndex, T))
    /\ \A T \in DOMAIN invertedIndex : invertedIndex[T] \subseteq DocIds

(* two documents share a term and one of them repeats it *)
C1_Witness ==
    \E T \in DOMAIN invertedIndex :
        /\ Cardinality(invertedIndex[T]) = 2
        /\ \E d \in invertedIndex[T] : TermCountIn(termFrequency, d, T) >= 2
        /\ \E d \in invertedIndex[T] : TermCountIn(termFrequency, d, T) = 1

---------------------------------------------------------------------------
(* C2 as stated: Search returns no result whose accumulated score is       *)
(* exactly 0; every returned SearchResult has a nonzero score.             *)
C2_Original ==
    IsSearch => \A i \in 1..Len(results) : results[i].score # 0

(* C2 as amended: Search scores every document that holds at least one     *)
(* query term and returns them (up to maxResults) with score >= 0; the      *)
(* score of a returned document is exactly 0 when every query term it       *)
(* holds is in every document of the corpus, and positive otherwise.        *)
C2_ZeroScoresReturned ==
    IsSearch =>
        /\ ResultIds(ranked) = MatchingDocs(lastCall.query)
        /\ \A i \in 1..Len(results) :
              LET r == results[i]
                  held == DocTerms(documents[r.documentId + 1])
                              \cap QueryTermsOf(lastCall.query)
              IN /\ r.score >= 0
                 /\ held # {}
                 /\ (r.score = 0) <=>
                        (\A T \in held : \A d \in DocIds : T \in DocTerms(documents[d + 1]))

(* a one-document corpus whose document is returned with score 0 *)
C2_Witness ==
    /\ IsSearch
    /\ Len(documents) = 1
    /\ Len(results) = 1
    /\ results[1].score = 0

---------------------------------------------------------------------------
(* C3: Search called with maxResults zero or negative returns an empty     *)
(* result sequence.                                                         *)
C3_NonPositiveMaxResultsEmpty ==
    (IsSearch /\ lastCall.maxResults <= 0) => results = <<>>

---------------------------------------------------------------------------
(* C4: for maxResults >= 1 the returned sequence has non-increasing scores, *)
(* at most maxResults entries, and is exactly the first min(maxResults, n)  *)
(* entries of the sorted list of all n scored documents.                    *)
C4_SortedPrefix ==
    (IsSearch /\ lastCall.maxResults >= 1) =>
        /\ NonIncreasing(results)
        /\ Len(results) <= lastCall.maxResults
        /\ NonIncreasing(ranked)
        /\ ResultIds(ranked) = MatchingDocs(lastCall.query)
        /\ Len(ranked) = Cardinality(MatchingDocs(lastCall.query))
        /\ results = SubSeq(ranked, 1, Min(lastCall.maxResults, Len(ranked)))

(* two documents with different scores, truncated to the better one *)
C4_Witness ==
    /\ IsSearch
    /\ lastCall.maxResults = 1
    /\ Len(ranked) = 2
    /\ ranked[1].score > ranked[2].score
    /\ results = <<ranked[1]>>

---------------------------------------------------------------------------
(* Vocabulary of the snippet properties *)

SnContentLength == Len(snDoc.content)

(* where the first query term that occurs in the normalized content first   *)
(* occurs (0-based); 0 when none occurs                                     *)
SnFirstMatch ==
    LET lower == PreprocessText(snDoc.content)
        occurs(t) == \E p \in 0..(SnContentLength - Len(t)) : MatchesAt(lower, t, p)
        hit == {i \in DOMAIN snTerms : occurs(snTerms[i])}
    IN IF hit = {} THEN 0
       ELSE LET t == snTerms[CHOOSE i \in hit : \A j \in hit : i <= j]
            IN CHOOSE p \in 0..(SnContentLength - Len(t)) :
                  /\ MatchesAt(lower, t, p)
                  /\ \A q \in 0..(p - 1) : ~MatchesAt(lower, t, q)

SnWindowStart == IF SnFirstMatch > 75 THEN SnFirstMatch - 75 ELSE 0

(* C5 as stated: the extracted text (without the added ellipses) has length *)
(* exactly 150 when the content length is >= 150 and length equal to the    *)
(* content length when the content is shorter, wherever the match is.       *)
C5_Original ==
    snOut.done =>
        /\ SnContentLength >= 150 => Len(snOut.parts.extracted) = 150
        /\ SnContentLength < 150 => Len(snOut.parts.extracted) = SnContentLength

(* C5 as amended: the extracted text starts 75 characters before the first  *)
(* match (at 0 when the match is at position <= 75 or there is none) and    *)
(* has length 150 when at least 150 characters of content follow that       *)
(* start, otherwise it runs to the end of the content; so it has the        *)
(* content's length only when the content is shorter than 150 and the       *)
(* window starts at 0.                                                      *)
C5_WindowClipped ==
    snOut.done =>
        LET ex == snOut.parts.extracted
            rest == SnContentLength - SnWindowStart
        IN /\ Len(ex) = IF rest >= 150 THEN 150 ELSE rest
           /\ \A k \in 1..Len(ex) : ex[k] = snDoc.content[SnWindowStart + k]
           /\ Len(snOut.parts.snippet) =
                 Len(ex) + (IF SnWindowStart > 0 THEN 3 ELSE 0)
                         + (IF SnWindowStart + Len(ex) < SnContentLength THEN 3 ELSE 0)
           /\ (SnFirstMatch <= 75 /\ SnContentLength >= 150) => Len(ex) = 150
           /\ (SnFirstMatch <= 75 /\ SnContentLength < 150) => Len(ex) = SnContentLength

(* content of 150 characters or more, a match past position 75, and a       *)
(* window cut short by the end of the content                               *)
C5_Witness ==
    /\ snOut.done
    /\ SnContentLength >= 150
    /\ SnFirstMatch > 75
    /\ Len(snOut.parts.extracted) < 150
    /\ snOut.parts.start > 0

---------------------------------------------------------------------------
(* Vocabulary of the ranking scenario *)

PythonCount(d) ==
    Occurrences(S_python, Tokenize(documents[d + 1].title))
        + Occurrences(S_python, Tokenize(documents[d + 1].content))

(* a corpus of exactly two documents, holding "python" five times and once, *)
(* just searched for "python" with room for at least one result             *)
FiveAndOneSearched ==
    /\ IsSearch
    /\ lastCall.query = S_python
    /\ lastCall.maxResults >= 1
    /\ Len(documents) = 2
    /\ \E a, b \in DocIds : PythonCount(a) = 5 /\ PythonCount(b) = 1

(* C6 as stated: in that corpus Search("python") returns the document with  *)
(* five occurrences in first position, in every execution.                  *)
C6_Original ==
    FiveAndOneSearched =>
        /\ Len(results) >= 1
        /\ PythonCount(results[1].documentId) = 5

(* C6 as amended: in that corpus Search("python") scores both documents     *)
(* exactly 0 (the term is in every document, so its idf is log(2/2) = 0);   *)
(* both are returned when maxResults >= 2 and their order is not            *)
(* determined by the number of occurrences.                                 *)
C6_BothScoreZero ==
    FiveAndOneSearched =>
        /\ Len(ranked) = 2
        /\ \A i \in 1..2 : ranked[i].score = 0
        /\ Len(results) = Min(lastCall.maxResults, 2)
        /\ Len(results) >= 1

(* the document with one occurrence is returned ahead of the other *)
C6_Witness ==
    /\ FiveAndOneSearched
    /\ Len(results) = 2
    /\ PythonCount(results[1].documentId) = 1
    /\ PythonCount(results[2].documentId) = 5

---------------------------------------------------------------------------
(* Vocabulary of the missing-term scenario *)

ZzzSearched ==
    /\ IsSearch
    /\ lastCall.query = Q_zzz
    /\ Len(documents) >= 1

ZzzTokens == {T_zzz, T_nonexistent, T_term}

SomeDocHoldsZzzToken ==
    \E d \in DocIds : DocTerms(documents[d + 1]) \cap ZzzTokens # {}

(* C7 as stated: on every non-empty corpus, whatever its documents,         *)
(* Search("zzz_nonexistent_term") returns an empty sequence.                *)
C7_Original == ZzzSearched => results = <<>>

(* C7 as amended: the query is split at the underscores into the terms      *)
(* "zzz", "nonexistent" and "term"; on a non-empty corpus the search        *)
(* returns an empty sequence when no document holds any of the three, and   *)
(* (for maxResults >= 1) returns a document that holds one of them.         *)
C7_EmptyUnlessTokenHeld ==
    ZzzSearched =>
        /\ ~SomeDocHoldsZzzToken => results = <<>>
        /\ (SomeDocHoldsZzzToken /\ lastCall.maxResults >= 1) =>
              /\ results # <<>>
              /\ \A i \in 1..Len(results) :
                    DocTerms(documents[results[i].documentId + 1]) \cap ZzzTokens # {}

(* a corpus with indexed terms, none of them one of the three *)
C7_Witness ==
    /\ ZzzSearched
    /\ lastCall.maxResults >= 1
    /\ DOMAIN invertedIndex # {}
    /\ ~SomeDocHoldsZzzToken
    /\ results = <<>>

---------------------------------------------------------------------------
(* Vocabulary of the batch-loading property *)

FirstPipe(line) == CHOOSE i \in DOMAIN line : line[i] = "|" /\ \A j \in 1..(i - 1) : line[j] # "|"

TitleOfLine(line) == SubSeq(line, 1, FirstPipe(line) - 1)

(* C8: batch loading adds exactly as many documents as there are lines     *)
(* holding a '|', in line order; a line without '|' adds no document and   *)
(* leaves the document store and the index tables unchanged.               *)
C8_BatchLoad ==
    [][lastCall'.op = "loadFromFile" =>
        LET piped == SelectSeq(lastCall'.lines, HasPipe)
        IN /\ Len(documents') = Len(documents) + Len(piped)
           /\ SubSeq(documents', 1, Len(documents)) = documents
           /\ \A k \in 1..Len(piped) :
                 documents'[Len(documents) + k].title = TitleOfLine(piped[k])
           /\ Len(piped) = 0 =>
                 UNCHANGED <<documents, invertedIndex, termFrequency, documentFrequency>>
           /\ (lastCall'.lines = <<L_ABC, L_DE, L_NoDelimiter>>) =>
                 Len(documents') = Len(documents) + 2]_vars

(* the three lines of the example were loaded and gave two documents *)
C8_Witness ==
    /\ lastCall.op = "loadFromFile"
    /\ lastCall.lines = <<L_ABC, L_DE, L_NoDelimiter>>
    /\ Len(documents) = 2
    /\ documents[1].title = <<"A">>
    /\ documents[2].title = <<"D">>

---------------------------------------------------------------------------
(* C9: after any sequence of AddDocument, batch-load and Search calls the  *)
(* document at position i of the store has identifier i, so the            *)
(* identifiers are exactly 0..N-1, none skipped and none assigned twice.   *)
C9_DenseIds ==
    /\ \A i \in 1..Len(documents) : documents[i].id = i - 1
    /\ {documents[i].id : i \in 1..Len(documents)} = DocIds
    /\ \A i, j \in 1..Len(documents) : documents[i].id = documents[j].id => i = j

(* two documents are stored and a search has run since *)
C9_Witness ==
    /\ Len(documents) >= 2
    /\ IsSearch
    /\ documents[2].id = 1

---------------------------------------------------------------------------
(* C10: for every stored document D and term T, TermFrequencyTable[D][T]   *)
(* is twice the occurrences of T in Tokenize(title) plus its occurrences   *)
(* in Tokenize(content), while each document that holds T counts exactly   *)
(* 1 in DocumentFrequencyTable[T], however often it holds T.               *)
C10_TitleWeight ==
    LET terms == KnownTerms \cup UNION {DocTerms(documents[i]) : i \in 1..Len(documents)}
    IN \A T \in terms :
          /\ \A i \in 1..Len(documents) :
                TermCountIn(termFrequency, i - 1, T) =
                    2 * Occurrences(T, Tokenize(documents[i].title))
                      + Occurrences(T, Tokenize(documents[i].content))
          /\ CounterAt(documentFrequency, T) =
                Cardinality({i \in 1..Len(documents) : T \in DocTerms(documents[i])})

(* a document whose title and content both hold a term: counted 2 + 1 *)
C10_Witness ==
    /\ lastCall.op = "addDocument"
    /\ \E T \in DocTerms(documents[Len(documents)]) :
          /\ Occurrences(T, Tokenize(lastCall.title)) = 1
          /\ Occurrences(T, Tokenize(lastCall.content)) = 1
          /\ TermCountIn(termFrequency, Len(documents) - 1, T) = 3
          /\ CounterAt(documentFrequency, T) = 1

---------------------------------------------------------------------------
(* Vocabulary of the read-only property *)

EmptyEngine == [documents |-> <<>>, invertedIndex |-> EmptyMap,
                termFrequency |-> EmptyMap, documentFrequency |-> EmptyMap]

(* the engine that the AddDocument calls alone leave, one per stored document *)
RECURSIVE AddedAlone(_, _)
AddedAlone(docs, k) ==
    IF k = 0 THEN EmptyEngine
    ELSE AddDocumentTo(AddedAlone(docs, k - 1),
                       docs[k].title, docs[k].content, docs[k].url)

(* C11: a Search call leaves the document store, InvertedIndex,             *)
(* TermFrequencyTable and DocumentFrequencyTable exactly as they were (its  *)
(* lookups create no key, also for query terms that are not indexed), so    *)
(* with Search calls interleaved the index state is the one the AddDocument *)
(* calls alone give.                                                        *)
C11_SearchReadOnly ==
    /\ [][lastCall'.op = "search" =>
            UNCHANGED <<documents, invertedIndex, termFrequency, documentFrequency>>]_vars
    /\ [](IsSearch => Engine = AddedAlone(documents, Len(documents)))

(* a search whose query holds terms that are not indexed and a term that is, *)
(* so that both the index lookup and the scoring lookups have run            *)
C11_Witness ==
    /\ IsSearch
    /\ lastCall.query = Q_zzz
    /\ T_zzz \notin DOMAIN invertedIndex
    /\ T_term \in DOMAIN invertedIndex
    /\ Len(documents) = 2
    /\ results # <<>>

====
